---- MODULE Spec2Model ----
(***************************************************************************)
(* Model of script/parameter_process.py: the batch driver (main), the      *)
(* per-file pipeline (SchemaToRosParamConverter.process) and the pure      *)
(* functions it is built from (_resolve_refs, _extract_defaults_from_...,  *)
(* _process_default_value_path, _save_yaml).                               *)
(*                                                                         *)
(* Python strings are sequences of one-character strings, so that          *)
(* startswith / endswith / partition / replace are computed as Python      *)
(* computes them.  JSON values are tagged records:                         *)
(*   dict  [t |-> "obj", kv |-> <<  <<key, value>>, ... >>]  (ordered)      *)
(*   list  [t |-> "arr", items |-> << value, ... >>]                       *)
(*   str   [t |-> "str", s |-> <<chars>>]                                  *)
(*   int   [t |-> "num", n |-> n]                                          *)
(*   bool  [t |-> "bool", b |-> b]                                         *)
(* A raised Python exception is the value EXC.                             *)
(***************************************************************************)
EXTENDS Naturals, Integers, Sequences, FiniteSets, TLC

\* ------------------------------------------------------------------------
\* Bounds
\* ------------------------------------------------------------------------
\* Largest number of entries matching *.schema.json in the schema directory.
MaxFiles == 4

\* Depth of the Python call stack available to _resolve_refs (the
\* interpreter raises RecursionError beyond it).
RecursionLimit == 16

\* ------------------------------------------------------------------------
\* Python str operations used by the script
\* ------------------------------------------------------------------------
\* str.startswith
StartsWith(s, p) == Len(s) >= Len(p) /\ SubSeq(s, 1, Len(p)) = p

\* str.endswith
EndsWith(s, p) == Len(s) >= Len(p) /\ SubSeq(s, Len(s) - Len(p) + 1, Len(s)) = p

\* Index of the first occurrence of p in s, 0 when there is none (str.find + 1).
Find(s, p) ==
    IF \E i \in 1..(Len(s) - Len(p) + 1) : SubSeq(s, i, i + Len(p) - 1) = p
    THEN CHOOSE i \in 1..(Len(s) - Len(p) + 1) :
            /\ SubSeq(s, i, i + Len(p) - 1) = p
            /\ \A j \in 1..(i - 1) : SubSeq(s, j, j + Len(p) - 1) # p
    ELSE 0

\* `p in s` for two str
StrContains(s, p) == Find(s, p) # 0

\* str.partition(sep): <<head, sep, tail>>, or <<s, "", "">> without sep.
Partition(s, sep) ==
    LET i == Find(s, sep) IN
    IF i = 0 THEN <<s, <<>>, <<>>>>
    ELSE <<SubSeq(s, 1, i - 1), sep, SubSeq(s, i + Len(sep), Len(s))>>

\* str.replace(old, new): every non-overlapping occurrence, left to right.
RECURSIVE Replace(_, _, _)
Replace(s, old, new) ==
    LET i == Find(s, old) IN
    IF i = 0 THEN s
    ELSE SubSeq(s, 1, i - 1) \o new \o Replace(SubSeq(s, i + Len(old), Len(s)), old, new)

\* ------------------------------------------------------------------------
\* String literals of the script
\* ------------------------------------------------------------------------
K_ref == <<"$", "r", "e", "f">>
K_definitions == <<"d", "e", "f", "i", "n", "i", "t", "i", "o", "n", "s">>
K_properties == <<"p", "r", "o", "p", "e", "r", "t", "i", "e", "s">>
K_default == <<"d", "e", "f", "a", "u", "l", "t">>
K_type == <<"t", "y", "p", "e">>
K_wildcard == <<"/", "*", "*">>
K_ros_parameters == <<"r", "o", "s", "_", "_", "p", "a", "r", "a", "m", "e", "t", "e", "r", "s">>
S_object == <<"o", "b", "j", "e", "c", "t">>
S_array == <<"a", "r", "r", "a", "y">>
S_hash == <<"#">>
S_slash == <<"/">>
S_dollar_paren == <<"$", "(">>
S_definitions_path == S_slash \o K_definitions \o S_slash
S_internal_prefix == S_hash \o S_definitions_path
S_find_pkg_share == <<"$", "(", "f", "i", "n", "d", "-", "p", "k", "g", "-", "s", "h", "a", "r", "e", " ">>
S_close_paren_slash == <<")", "/">>
S_schema == <<".", "s", "c", "h", "e", "m", "a">>
S_json == <<".", "j", "s", "o", "n">>
S_yaml == <<".", "y", "a", "m", "l">>
S_pcd == <<".", "p", "c", "d">>
S_onnx == <<".", "o", "n", "n", "x">>
S_xml == <<".", "x", "m", "l">>
S_param_yaml == <<".", "p", "a", "r", "a", "m">> \o S_yaml
S_schema_json == S_schema \o S_json
PathExtensions == {S_yaml, S_json, S_pcd, S_onnx, S_xml}

\* ------------------------------------------------------------------------
\* JSON values (what json.load returns) and the Python operations on them
\* ------------------------------------------------------------------------
Obj(kv) == [t |-> "obj", kv |-> kv]
Arr(items) == [t |-> "arr", items |-> items]
Str(s) == [t |-> "str", s |-> s]
Num(n) == [t |-> "num", n |-> n]
Bool(b) == [t |-> "bool", b |-> b]
Null == [t |-> "null"]
EXC == [t |-> "exc"]

IsDict(v) == v.t = "obj"
IsList(v) == v.t = "arr"
IsStr(v) == v.t = "str"

\* dict: `k in d`, d[k], d.keys()
HasKey(d, k) == \E i \in 1..Len(d.kv) : d.kv[i][1] = k
Get(d, k) == d.kv[CHOOSE i \in 1..Len(d.kv) : d.kv[i][1] = k][2]
Keys(d) == {d.kv[i][1] : i \in 1..Len(d.kv)}

\* Put that inserts a new key in front of the existing ones.
Put_Front(d, k, v) ==
    IF HasKey(d, k)
    THEN Obj([i \in 1..Len(d.kv) |-> IF d.kv[i][1] = k THEN <<k, v>> ELSE d.kv[i]])
    ELSE Obj(<< <<k, v>> >> \o d.kv)

\* d[k] = v on a dict: an existing key keeps its position, a new key is appended.
Put(d, k, v) ==
    IF HasKey(d, k)
    THEN Obj([i \in 1..Len(d.kv) |-> IF d.kv[i][1] = k THEN <<k, v>> ELSE d.kv[i]])
    ELSE Obj(Append(d.kv, <<k, v>>))

\* `k in x` for a str k and any JSON value x: key of a dict, element of a
\* list, substring of a str; TypeError on int, bool, None (PyInRaises).
PyIn(k, x) ==
    CASE x.t = "obj" -> HasKey(x, k)
      [] x.t = "arr" -> \E i \in 1..Len(x.items) : x.items[i] = Str(k)
      [] x.t = "str" -> StrContains(x.s, k)
      [] OTHER -> FALSE
PyInRaises(x) == x.t \notin {"obj", "arr", "str"}

\* x[k] for a str k that `k in x` found: a value on a dict, TypeError on
\* a list or a str.
SubscriptRaises(x) == ~IsDict(x)

\* ------------------------------------------------------------------------
\* State
\* ------------------------------------------------------------------------
VARIABLES
    fs,              \* the file system: path -> content (JSON value, MALFORMED, DIR, YAML)
    listing,         \* order in which the OS enumerates the entries of the schema directory
    args,            \* parsed command line: schema_dir, output_dir, package_name
    pc,              \* position of the process in main / process
    schema_files,    \* main: list(schema_dir.glob("*.schema.json"))
    idx,             \* main: position of the for loop in schema_files
    success_count,   \* main: success_count
    exit_code,       \* process exit code, -1 while running
    converter,       \* main: the converter of the current iteration
    p_schema_data,   \* process: schema_data = json.load(f)
    p_resolved,      \* process: resolved_schema = self._resolve_refs(...)
    p_defaults,      \* process: defaults = self._extract_defaults_from_resolved_schema(...)
    log              \* what main and process have logged / returned so far

vars == <<fs, listing, args, pc, schema_files, idx, success_count, exit_code,
          converter, p_schema_data, p_resolved, p_defaults, log>>

\* Contents of a path that is not a parsed JSON document.
MALFORMED == [t |-> "malformed"]
DIR == [t |-> "dir"]
Yaml(data) == [t |-> "yaml", data |-> data]

\* ------------------------------------------------------------------------
\* pathlib
\* ------------------------------------------------------------------------
\* Index of the last "/" of a path, 0 when there is none.
LastSlash(p) ==
    IF \E i \in 1..Len(p) : p[i] = "/"
    THEN CHOOSE i \in 1..Len(p) : p[i] = "/" /\ \A j \in (i + 1)..Len(p) : p[j] # "/"
    ELSE 0

\* Path.parent
Parent(p) == IF LastSlash(p) = 0 THEN <<".">> ELSE SubSeq(p, 1, LastSlash(p) - 1)

\* Path.name
Name(p) == SubSeq(p, LastSlash(p) + 1, Len(p))

\* Path.stem: the name without its last suffix.
Stem(p) ==
    LET n == Name(p)
        dots == {i \in 2..Len(n) : n[i] = "."}
    IN IF dots = {} THEN n
       ELSE SubSeq(n, 1, (CHOOSE i \in dots : \A j \in dots : j <= i) - 1)

\* dir / rel: an absolute right operand replaces the left one.
PathJoin(dir, rel) ==
    IF StartsWith(rel, S_slash) THEN rel
    ELSE IF rel = <<>> THEN dir
    ELSE dir \o S_slash \o rel

\* Path.exists
Exists(p) == p \in DOMAIN fs

\* open(p) + json.load: the parsed document, EXC when the path is missing,
\* is a directory or does not hold valid JSON.
JsonLoad(p) ==
    IF ~Exists(p) THEN EXC
    ELSE IF fs[p].t \in {"malformed", "dir", "yaml"} THEN EXC
    ELSE fs[p]

\* ------------------------------------------------------------------------
\* SchemaToRosParamConverter._resolve_refs
\* ------------------------------------------------------------------------
\* MergeSiblings where a key of the definition is kept (the definition wins).
RECURSIVE MergeSiblings(_, _, _)
MergeSiblings_DefinitionWins(resolved, schema_data, n) ==
    IF n = 0 THEN resolved
    ELSE LET before == MergeSiblings(resolved, schema_data, n - 1)
             key == schema_data.kv[n][1]
             value == schema_data.kv[n][2]
         IN IF key # K_ref /\ ~HasKey(before, key) THEN Put(before, key, value) ELSE before

\* resolved = resolved.copy(); for key, value in schema_data.items():
\*     if key != "$ref": resolved[key] = value
\* applied to the first n items of schema_data.
MergeSiblings(resolved, schema_data, n) ==
    IF n = 0 THEN resolved
    ELSE LET before == MergeSiblings(resolved, schema_data, n - 1)
             key == schema_data.kv[n][1]
             value == schema_data.kv[n][2]
         IN IF key # K_ref THEN Put(before, key, value) ELSE before

\* What the `if isinstance(resolved, dict)` block after a resolved
\* definition leaves: the merged copy for a dict, and otherwise control
\* falls through to the final `return schema_data`.
MergeOrFallThrough(resolved, schema_data) ==
    IF IsDict(resolved)
    THEN MergeSiblings(resolved, schema_data, Len(schema_data.kv))
    ELSE schema_data

\* `k1 in doc and k2 in doc[k1]`: "yes", "no", or "raise" when one of the
\* operations raises.
NestedLookup(doc, k1, k2) ==
    IF PyInRaises(doc) THEN "raise"
    ELSE IF ~PyIn(k1, doc) THEN "no"
    ELSE IF SubscriptRaises(doc) THEN "raise"
    ELSE IF PyInRaises(Get(doc, k1)) THEN "raise"
    ELSE IF PyIn(k2, Get(doc, k1)) THEN "yes" ELSE "no"

\* `"definitions" in doc and def_name in doc["definitions"]`
DefinitionLookup(doc, def_name) == NestedLookup(doc, K_definitions, def_name)

\* self.schema_path.parent / file_path
ExternalFilePath(conv, file_path) == PathJoin(Parent(conv.schema_path), file_path)

RECURSIVE ResolveRefs(_, _, _, _)

\* ResolveExternal without the exists() check: opening the missing file
\* raises outside the try block.
ResolveExternal_NoExistsCheck(conv, schema_data, ref_path, depth) ==
    LET parts == Partition(ref_path, S_hash)
        external_file_path == ExternalFilePath(conv, parts[1])
        external_schema == JsonLoad(external_file_path)
    IN
    IF ~Exists(external_file_path) THEN EXC
    ELSE IF external_schema = EXC THEN schema_data
    ELSE IF parts[3] # <<>> THEN
        IF StartsWith(parts[3], S_definitions_path) THEN
            LET def_name == Replace(parts[3], S_definitions_path, <<>>) IN
            IF DefinitionLookup(external_schema, def_name) # "yes" THEN schema_data
            ELSE IF SubscriptRaises(Get(external_schema, K_definitions)) THEN schema_data
            ELSE LET resolved == ResolveRefs(conv, Get(Get(external_schema, K_definitions), def_name),
                                             external_schema, depth - 1)
                 IN IF resolved = EXC THEN schema_data
                    ELSE MergeOrFallThrough(resolved, schema_data)
        ELSE schema_data
    ELSE
        LET whole == ResolveRefs(conv, external_schema, external_schema, depth - 1)
        IN IF whole = EXC THEN schema_data ELSE whole

\* The branch of a "$ref" that does not start with "#" (lines 74-114).
ResolveExternal(conv, schema_data, ref_path, depth) ==
    LET parts == Partition(ref_path, S_hash)
        file_path == parts[1]
        def_path == parts[3]
        external_file_path == ExternalFilePath(conv, file_path)
        external_schema == JsonLoad(external_file_path)
    IN
    IF ~Exists(external_file_path) THEN schema_data
    ELSE IF external_schema = EXC THEN schema_data
    ELSE IF def_path # <<>> THEN
        IF StartsWith(def_path, S_definitions_path) THEN
            LET def_name == Replace(def_path, S_definitions_path, <<>>)
                found == DefinitionLookup(external_schema, def_name)
            IN
            IF found = "raise" THEN schema_data
            ELSE IF found = "no" THEN schema_data
            ELSE IF SubscriptRaises(Get(external_schema, K_definitions)) THEN schema_data
            ELSE LET resolved == ResolveRefs(conv, Get(Get(external_schema, K_definitions), def_name),
                                             external_schema, depth - 1)
                 IN IF resolved = EXC THEN schema_data
                    ELSE MergeOrFallThrough(resolved, schema_data)
        ELSE schema_data
    ELSE
        LET whole == ResolveRefs(conv, external_schema, external_schema, depth - 1)
        IN IF whole = EXC THEN schema_data ELSE whole

\* ResolveInternal that passes the sibling values through _resolve_refs
\* before overlaying them.
ResolveInternal_SiblingsResolved(conv, schema_data, root_schema, ref_path, depth) ==
    LET def_name == Replace(ref_path, S_internal_prefix, <<>>)
        found == DefinitionLookup(root_schema, def_name)
        values == [i \in 1..Len(schema_data.kv) |->
                      IF schema_data.kv[i][1] = K_ref THEN schema_data.kv[i][2]
                      ELSE ResolveRefs(conv, schema_data.kv[i][2], root_schema, depth - 1)]
        siblings == Obj([i \in 1..Len(values) |-> <<schema_data.kv[i][1], values[i]>>])
    IN
    IF found = "raise" THEN EXC
    ELSE IF found = "no" THEN schema_data
    ELSE IF SubscriptRaises(Get(root_schema, K_definitions)) THEN EXC
    ELSE LET resolved == ResolveRefs(conv, Get(Get(root_schema, K_definitions), def_name),
                                     root_schema, depth - 1)
         IN IF resolved = EXC \/ (\E i \in 1..Len(values) : values[i] = EXC) THEN EXC
            ELSE IF IsDict(resolved) THEN MergeSiblings(resolved, siblings, Len(siblings.kv))
            ELSE schema_data

\* The branch of a "$ref" that starts with "#/definitions/" (lines 117-133).
ResolveInternal(conv, schema_data, root_schema, ref_path, depth) ==
    LET def_name == Replace(ref_path, S_internal_prefix, <<>>)
        found == DefinitionLookup(root_schema, def_name)
    IN
    IF found = "raise" THEN EXC
    ELSE IF found = "no" THEN schema_data
    ELSE IF SubscriptRaises(Get(root_schema, K_definitions)) THEN EXC
    ELSE LET resolved == ResolveRefs(conv, Get(Get(root_schema, K_definitions), def_name),
                                     root_schema, depth - 1)
         IN IF resolved = EXC THEN EXC
            ELSE MergeOrFallThrough(resolved, schema_data)

\* _resolve_refs(schema_data, root_schema) with `depth` stack frames left;
\* EXC when it raises.
ResolveRefs(conv, schema_data, root_schema, depth) ==
    IF depth = 0 THEN EXC
    ELSE IF IsDict(schema_data) THEN
        IF HasKey(schema_data, K_ref) THEN
            LET ref_path == Get(schema_data, K_ref) IN
            IF IsStr(ref_path) /\ ~StartsWith(ref_path.s, S_hash)
            THEN ResolveExternal(conv, schema_data, ref_path.s, depth)
            ELSE IF IsStr(ref_path) /\ StartsWith(ref_path.s, S_internal_prefix)
            THEN ResolveInternal(conv, schema_data, root_schema, ref_path.s, depth)
            ELSE schema_data
        ELSE
            LET values == [i \in 1..Len(schema_data.kv) |->
                              ResolveRefs(conv, schema_data.kv[i][2], root_schema, depth - 1)]
            IN IF \E i \in 1..Len(values) : values[i] = EXC THEN EXC
               ELSE Obj([i \in 1..Len(values) |-> <<schema_data.kv[i][1], values[i]>>])
    ELSE IF IsList(schema_data) THEN
        LET items == [i \in 1..Len(schema_data.items) |->
                         ResolveRefs(conv, schema_data.items[i], root_schema, depth - 1)]
        IN IF \E i \in 1..Len(items) : items[i] = EXC THEN EXC
           ELSE Arr(items)
    ELSE schema_data

\* Some call of _resolve_refs below this one finds no stack frame left
\* (RecursionError), whether or not an enclosing try block catches it.
\* Children after one that raises are not visited.
RECURSIVE StackOverflows(_, _, _, _)
StackOverflows(conv, schema_data, root_schema, depth) ==
    IF depth = 0 THEN TRUE
    ELSE IF IsDict(schema_data) THEN
        IF HasKey(schema_data, K_ref) THEN
            LET ref_path == Get(schema_data, K_ref) IN
            IF IsStr(ref_path) /\ ~StartsWith(ref_path.s, S_hash) THEN
                LET parts == Partition(ref_path.s, S_hash)
                    def_path == parts[3]
                    external_file_path == ExternalFilePath(conv, parts[1])
                    external_schema == JsonLoad(external_file_path)
                    def_name == Replace(def_path, S_definitions_path, <<>>)
                IN
                IF ~Exists(external_file_path) \/ external_schema = EXC THEN FALSE
                ELSE IF def_path = <<>>
                THEN StackOverflows(conv, external_schema, external_schema, depth - 1)
                ELSE /\ StartsWith(def_path, S_definitions_path)
                     /\ DefinitionLookup(external_schema, def_name) = "yes"
                     /\ ~SubscriptRaises(Get(external_schema, K_definitions))
                     /\ StackOverflows(conv, Get(Get(external_schema, K_definitions), def_name),
                                       external_schema, depth - 1)
            ELSE IF IsStr(ref_path) /\ StartsWith(ref_path.s, S_internal_prefix) THEN
                LET def_name == Replace(ref_path.s, S_internal_prefix, <<>>) IN
                /\ DefinitionLookup(root_schema, def_name) = "yes"
                /\ ~SubscriptRaises(Get(root_schema, K_definitions))
                /\ StackOverflows(conv, Get(Get(root_schema, K_definitions), def_name),
                                  root_schema, depth - 1)
            ELSE FALSE
        ELSE
            \E i \in 1..Len(schema_data.kv) :
                /\ StackOverflows(conv, schema_data.kv[i][2], root_schema, depth - 1)
                /\ \A j \in 1..(i - 1) :
                      ResolveRefs(conv, schema_data.kv[j][2], root_schema, depth - 1) # EXC
    ELSE IF IsList(schema_data) THEN
        \E i \in 1..Len(schema_data.items) :
            /\ StackOverflows(conv, schema_data.items[i], root_schema, depth - 1)
            /\ \A j \in 1..(i - 1) :
                  ResolveRefs(conv, schema_data.items[j], root_schema, depth - 1) # EXC
    ELSE FALSE

\* ------------------------------------------------------------------------
\* SchemaToRosParamConverter._process_default_value_path
\* ------------------------------------------------------------------------
\* Truth value of self.package_name: None and "" are false.
Truthy(package_name) == IsStr(package_name) /\ package_name.s # <<>>

\* value.endswith((".yaml", ".json", ".pcd", ".onnx", ".xml"))
EndsWithPathExtension(s) == \E e \in PathExtensions : EndsWith(s, e)

\* ProcessDefaultValuePath without the "$(" test.
ProcessDefaultValuePath_NoSubstitutionTest(conv, value) ==
    IF /\ IsStr(value)
       /\ Truthy(conv.package_name)
       /\ ~StartsWith(value.s, S_slash)
       /\ (StrContains(value.s, S_slash) \/ EndsWithPathExtension(value.s))
    THEN Str(S_find_pkg_share \o conv.package_name.s \o S_close_paren_slash \o value.s)
    ELSE value

ProcessDefaultValuePath(conv, value) ==
    IF /\ IsStr(value)
       /\ Truthy(conv.package_name)
       /\ ~StartsWith(value.s, S_slash)
       /\ ~StartsWith(value.s, S_dollar_paren)
       /\ (StrContains(value.s, S_slash) \/ EndsWithPathExtension(value.s))
    THEN Str(S_find_pkg_share \o conv.package_name.s \o S_close_paren_slash \o value.s)
    ELSE value

\* ------------------------------------------------------------------------
\* SchemaToRosParamConverter._extract_defaults_from_properties
\* ------------------------------------------------------------------------
\* prop_data.get("type") == s, on a dict
TypeIs(prop_data, s) == HasKey(prop_data, K_type) /\ Get(prop_data, K_type) = Str(s)

RECURSIVE ExtractDefaultsFromProperties(_, _)
RECURSIVE ExtractLoop(_, _, _)

\* ExtractLoop that stores the nested defaults without testing that they
\* are non-empty.
ExtractLoop_NoPruning(conv, props, n) ==
    IF n = 0 THEN Obj(<<>>)
    ELSE
    LET before == ExtractLoop(conv, props, n - 1)
        prop_name == props.kv[n][1]
        prop_data == props.kv[n][2]
    IN
    IF before = EXC THEN EXC
    ELSE IF PyInRaises(prop_data) THEN EXC
    ELSE IF PyIn(K_default, prop_data) THEN
        IF SubscriptRaises(prop_data) THEN EXC
        ELSE Put(before, prop_name, ProcessDefaultValuePath(conv, Get(prop_data, K_default)))
    ELSE IF ~IsDict(prop_data) THEN EXC
    ELSE IF TypeIs(prop_data, S_object) /\ HasKey(prop_data, K_properties) THEN
        LET nested_defaults == ExtractDefaultsFromProperties(conv, prop_data) IN
        IF nested_defaults = EXC THEN EXC
        ELSE Put(before, prop_name, nested_defaults)
    ELSE before

\* The for loop over properties_schema["properties"].items(), after its
\* first n iterations: the dict `defaults`, or EXC when an iteration raised.
ExtractLoop(conv, props, n) ==
    IF n = 0 THEN Obj(<<>>)
    ELSE
    LET before == ExtractLoop(conv, props, n - 1)
        prop_name == props.kv[n][1]
        prop_data == props.kv[n][2]
    IN
    IF before = EXC THEN EXC
    ELSE IF PyInRaises(prop_data) THEN EXC
    ELSE IF PyIn(K_default, prop_data) THEN
        IF SubscriptRaises(prop_data) THEN EXC
        ELSE Put(before, prop_name, ProcessDefaultValuePath(conv, Get(prop_data, K_default)))
    ELSE IF ~IsDict(prop_data) THEN EXC
    ELSE IF TypeIs(prop_data, S_object) /\ HasKey(prop_data, K_properties) THEN
        LET nested_defaults == ExtractDefaultsFromProperties(conv, prop_data) IN
        IF nested_defaults = EXC THEN EXC
        ELSE IF nested_defaults.kv # <<>> THEN Put(before, prop_name, nested_defaults)
        ELSE before
    ELSE IF TypeIs(prop_data, S_array) /\ HasKey(prop_data, K_default) THEN
        Put(before, prop_name, Get(prop_data, K_default))
    ELSE before

ExtractDefaultsFromProperties(conv, properties_schema) ==
    IF PyInRaises(properties_schema) THEN EXC
    ELSE IF ~PyIn(K_properties, properties_schema) THEN Obj(<<>>)
    ELSE IF SubscriptRaises(properties_schema) THEN EXC
    ELSE LET props == Get(properties_schema, K_properties) IN
         IF ~IsDict(props) THEN EXC
         ELSE ExtractLoop(conv, props, Len(props.kv))

\* ------------------------------------------------------------------------
\* SchemaToRosParamConverter._extract_defaults_from_resolved_schema
\* ------------------------------------------------------------------------
\* {"/**": {"ros__parameters": param_defaults}}
Envelope(param_defaults) ==
    Obj(<< <<K_wildcard, Obj(<< <<K_ros_parameters, param_defaults>> >>)>> >>)

ExtractDefaultsFromResolvedSchema(conv, resolved_schema) ==
    LET outer == NestedLookup(resolved_schema, K_properties, K_wildcard) IN
    IF outer = "raise" THEN EXC
    ELSE IF outer = "no" THEN Envelope(Obj(<<>>))
    ELSE IF SubscriptRaises(Get(resolved_schema, K_properties)) THEN EXC
    ELSE
    LET root_props == Get(Get(resolved_schema, K_properties), K_wildcard)
        inner == NestedLookup(root_props, K_properties, K_ros_parameters)
    IN
    IF inner = "raise" THEN EXC
    ELSE IF inner = "no" THEN Envelope(Obj(<<>>))
    ELSE IF SubscriptRaises(Get(root_props, K_properties)) THEN EXC
    ELSE
    LET ros_params == Get(Get(root_props, K_properties), K_ros_parameters)
        param_defaults == ExtractDefaultsFromProperties(conv, ros_params)
    IN IF param_defaults = EXC THEN EXC ELSE Envelope(param_defaults)

\* ------------------------------------------------------------------------
\* SchemaToRosParamConverter._save_yaml
\* ------------------------------------------------------------------------
\* output_dir / f"{schema_filename}.param.yaml"
OutputPath(conv) ==
    LET stem == Stem(conv.schema_path)
        schema_filename == IF EndsWith(stem, S_schema)
                           THEN SubSeq(stem, 1, Len(stem) - 7)
                           ELSE stem
    IN PathJoin(conv.output_dir, schema_filename \o S_param_yaml)

\* mkdir(parents=True, exist_ok=True) or open(output_path, "w") raises:
\* the output directory exists as a file, or the output path is a directory.
SaveRaises(conv) ==
    \/ Exists(Parent(OutputPath(conv))) /\ fs[Parent(OutputPath(conv))] # DIR
    \/ Exists(OutputPath(conv)) /\ fs[OutputPath(conv)] = DIR

\* The file system after a successful _save_yaml(data).
SaveYaml(conv, data) ==
    LET out == OutputPath(conv)
        dom == DOMAIN fs \cup {Parent(out), out}
    IN [p \in dom |-> IF p = out THEN Yaml(data)
                      ELSE IF p = Parent(out) THEN DIR
                      ELSE fs[p]]

\* ------------------------------------------------------------------------
\* Inputs: command line, schema documents and the files around them
\* ------------------------------------------------------------------------
SchemaDir == <<"d">>
OutputDir == <<"w">>
PackageNames == {Null, Str(<<>>), Str(<<"p", "k">>)}

\* Names of definitions and properties used by the documents.
N_A == <<"A">>
N_B == <<"B">>
N_L == <<"L">>
N_S == <<"S">>
N_N == <<"N">>
N_G == <<"G">>
N_U == <<"U">>
N_Z == <<"Z">>
N_p == <<"p">>
N_q == <<"q">>
N_x == <<"x">>
N_y == <<"y">>
N_a == <<"a">>
N_b == <<"b">>
N_c == <<"c">>
N_T == <<"T">>
N_K == <<"K">>
S_integer == <<"i", "n", "t", "e", "g", "e", "r">>

\* "$ref" strings.
RefInternal(name) == S_internal_prefix \o name
RefFile(file) == file \o S_json
RefFileDef(file, name) == file \o S_json \o S_hash \o S_definitions_path \o name
F_o == <<"o">>
F_m == <<"m">>
F_b == <<"b">>
F_sa == <<"s", "/", "a">>
F_st == <<"s", "/", "t">>
F_k == <<"k">>

RefStrings == {
    Str(RefInternal(N_A)),          \* a dict definition
    Str(RefInternal(N_N)),          \* a dict definition that is itself a $ref to A
    Str(RefInternal(N_G)),          \* a dict definition with nested properties
    Str(RefInternal(N_L)),          \* a list definition
    Str(RefInternal(N_S)),          \* a scalar definition
    Str(RefInternal(N_U)),          \* a dict definition that stays an unresolved $ref
    Str(RefInternal(N_Z)),          \* no such definition
    Str(S_hash \o <<"/">> \o N_x),  \* an internal pointer that is not a definition
    Str(RefFile(F_o)),              \* a whole external document
    Str(RefFileDef(F_o, N_A)),      \* a dict definition of an external document
    Str(RefFileDef(F_o, N_L)),      \* a list definition of an external document
    Str(RefFileDef(F_o, N_Z)),      \* no such definition in the external document
    Str(RefFile(F_o) \o S_hash \o <<"/">> \o N_x),  \* another fragment form
    Str(RefFileDef(F_sa, N_A)),     \* a definition of sub/a.json that refers to b.json
    Str(RefFile(F_m)),              \* a missing file
    Str(RefFileDef(F_m, N_A)),      \* a definition of a missing file
    Str(RefFileDef(F_st, N_T)),     \* a definition of s/t.json that refers to "s/t.json"
    Str(RefFileDef(F_k, N_K)),      \* a definition of k.json that refers to itself
    Num(1) }                        \* not a string

\* Values of "default".
PathLikeDefault == Str(<<"c", "/", "a">> \o S_yaml)
DefaultValues == {
    Num(5), Bool(TRUE), Null,
    Str(<<>>),
    Str(<<"p", "l", "a", "i", "n">>),
    PathLikeDefault,
    Str(<<"m">> \o S_onnx),
    Str(<<"/", "a">> \o S_yaml),
    Str(S_dollar_paren \o <<"v", ")", "/", "a">>),
    Str(<<"$", "a">> \o S_xml),
    Str(<<"a", ".", "t", "x", "t">>),
    Arr(<<Num(1), PathLikeDefault, Num(2)>>),
    Obj(<<>>),
    Obj(<< <<N_x, PathLikeDefault>> >>) }

\* Values of "properties" next to a "$ref" or on a plain property.
PropertiesValues == {
    Obj(<< <<N_x, Obj(<< <<K_default, Num(2)>> >>)>> >>),
    Obj(<< <<N_x, Obj(<< <<K_ref, Str(RefInternal(N_A))>> >>)>> >>),
    Obj(<< <<N_x, Obj(<< <<K_type, Str(S_integer)>> >>)>> >>),
    Obj(<< <<N_x, Obj(<< <<K_type, Str(S_object)>>,
                          <<K_properties, Obj(<< <<N_y, Obj(<< <<K_type, Str(S_integer)>> >>)>> >>)>> >>)>> >>),
    Obj(<< <<N_x, Obj(<< <<K_type, Str(S_object)>>,
                          <<K_properties, Obj(<< <<N_y, Obj(<< <<K_default, PathLikeDefault>> >>)>> >>)>> >>)>>,
           <<N_y, Obj(<< <<K_type, Str(S_integer)>> >>)>> >>),
    Obj(<< <<N_b, Obj(<< <<K_default, Num(2)>> >>)>>,
           <<N_a, Obj(<< <<K_default, Num(1)>> >>)>>,
           <<N_c, Obj(<< <<K_default, Num(3)>> >>)>> >>) }

TypeValues == {Str(S_object), Str(S_array), Str(S_integer)}

\* The optional items of a property's schema node.
OptItem(key, values) == {<<>>} \cup {<< <<key, v>> >> : v \in values}

\* Property nodes that carry a "$ref", with the "$ref" first or last.
RefNodes ==
    { Obj(r \o t \o d \o ps) :
        r \in OptItem(K_ref, RefStrings) \ {<<>>},
        t \in OptItem(K_type, {Str(S_object)}),
        d \in OptItem(K_default, {Num(5), PathLikeDefault}),
        ps \in OptItem(K_properties, PropertiesValues) }
    \cup
    { Obj(d \o r) :
        r \in OptItem(K_ref, RefStrings) \ {<<>>},
        d \in OptItem(K_default, {Num(5)}) \ {<<>>} }

\* Property nodes without a "$ref".
PlainNodes ==
    { Obj(t \o d \o ps) :
        t \in OptItem(K_type, TypeValues),
        d \in OptItem(K_default, DefaultValues),
        ps \in OptItem(K_properties, PropertiesValues) }

\* The definitions of a root schema document.
RootDefinitions ==
    Obj(<< <<N_A, Obj(<< <<K_type, Str(S_integer)>>, <<K_default, Num(1)>> >>)>>,
           <<N_N, Obj(<< <<K_ref, Str(RefInternal(N_A))>>, <<K_default, Num(6)>> >>)>>,
           <<N_G, Obj(<< <<K_type, Str(S_object)>>,
                         <<K_properties, Obj(<< <<N_y, Obj(<< <<K_ref, Str(RefInternal(N_A))>> >>)>> >>)>> >>)>>,
           <<N_L, Arr(<<Num(1), Str(N_x)>>)>>,
           <<N_S, Num(3)>>,
           <<N_U, Obj(<< <<K_ref, Str(RefFile(F_m))>>, <<K_type, Str(S_integer)>> >>)>> >>)

\* A root schema document whose ros__parameters declare p (the node under
\* study) and q.
RootDoc(node) ==
    Obj(<< <<K_definitions, RootDefinitions>>,
           <<K_properties, Obj(<< <<K_wildcard, Obj(<< <<K_properties, Obj(<<
               <<K_ros_parameters, Obj(<<
                   <<K_type, Str(S_object)>>,
                   <<K_properties, Obj(<<
                       <<N_p, node>>,
                       <<N_q, Obj(<< <<K_type, Str(S_integer)>>, <<K_default, Num(0)>> >>)>> >>)>>
               >>)>> >>)>> >>)>> >>)>> >>)

\* External documents.  o.json has definitions of its own and refers to
\* them; s/a.json refers to b.json, which exists next to it (s/b.json) and
\* possibly next to the root schema (b.json) with another content.
Doc_o ==
    Obj(<< <<K_definitions, Obj(<< <<N_A, Obj(<< <<K_type, Str(S_integer)>>, <<K_default, Num(7)>> >>)>>,
                                   <<N_L, Arr(<<Num(8)>>)>> >>)>>,
           <<K_type, Str(S_object)>>,
           <<K_properties, Obj(<< <<N_y, Obj(<< <<K_ref, Str(RefInternal(N_A))>> >>)>> >>)>> >>)
Doc_sa ==
    Obj(<< <<K_definitions, Obj(<< <<N_A, Obj(<< <<K_ref, Str(RefFileDef(F_b, N_B))>> >>)>> >>)>> >>)
Doc_sb ==
    Obj(<< <<K_definitions, Obj(<< <<N_B, Obj(<< <<K_type, Str(S_integer)>>, <<K_default, Num(3)>> >>)>> >>)>> >>)
Doc_b ==
    Obj(<< <<K_definitions, Obj(<< <<N_B, Obj(<< <<K_type, Str(S_integer)>>, <<K_default, Num(4)>> >>)>> >>)>> >>)
\* s/t.json names T of "s/t.json": s/s/t.json seen from its own directory.
Doc_st ==
    Obj(<< <<K_definitions, Obj(<< <<N_T, Obj(<< <<K_ref, Str(RefFileDef(F_st, N_T))>> >>)>> >>)>> >>)
Doc_sst ==
    Obj(<< <<K_definitions, Obj(<< <<N_T, Obj(<< <<K_type, Str(S_integer)>>, <<K_default, Num(3)>> >>)>> >>)>> >>)
\* k.json: the definition K names itself.
Doc_k ==
    Obj(<< <<K_definitions, Obj(<< <<N_K, Obj(<< <<K_ref, Str(RefInternal(N_K))>>,
                                                  <<K_type, Str(S_integer)>> >>)>> >>)>> >>)

\* What a *.schema.json entry of the schema directory holds, and whether
\* its output path is taken by a directory.
Entry(content, blocked) == [content |-> content, blocked |-> blocked]

\* A root document that is a list: its "$ref" item makes _resolve_refs
\* subscript the list with "definitions".
DocListRoot == Arr(<<Str(K_definitions), Obj(<< <<K_ref, Str(RefInternal(N_A))>> >>)>>)

BatchEntries == <<
    Entry(MALFORMED, FALSE),
    Entry(RootDoc(Obj(<< <<K_ref, Str(RefInternal(N_A))>> >>)), FALSE),
    Entry(RootDoc(Obj(<< <<K_ref, Str(RefFile(F_m))>> >>)), FALSE),
    Entry(DocListRoot, FALSE),
    Entry(Num(3), FALSE),
    Entry(RootDoc(Obj(<< <<K_default, Num(5)>> >>)), TRUE) >>

DocEntries == {Entry(RootDoc(n), FALSE) : n \in RefNodes \cup PlainNodes}

\* Up to MaxFiles batch entries, each kind any number of times, listed by
\* file name (a, b, c, ...) with equal kinds next to each other.
BatchLists ==
    UNION { { [i \in 1..n |-> BatchEntries[g[i]]] :
                g \in {h \in [1..n -> 1..Len(BatchEntries)] :
                          \A i \in 1..n, j \in 1..n : i < j => h[i] <= h[j]} } :
            n \in 0..MaxFiles }

\* The schema directory's *.schema.json entries, by file name: a batch, or
\* one of the document entries.
EntryLists == BatchLists \cup {<<e>> : e \in DocEntries}

\* The orders in which the directory can enumerate n entries: the file
\* system decides, and glob neither sorts nor reorders.
ScandirOrders(n) == {order \in [1..n -> 1..n] : \A i \in 1..n, j \in 1..n : order[i] = order[j] => i = j}

FileChars == <<"a", "b", "c", "e", "f", "g", "h">>
SchemaPath(i) == SchemaDir \o S_slash \o <<FileChars[i]>> \o S_schema_json
BlockedPath(i) == OutputDir \o S_slash \o <<FileChars[i]>> \o S_param_yaml
P_o == SchemaDir \o S_slash \o RefFile(F_o)
P_b == SchemaDir \o S_slash \o RefFile(F_b)
P_s == SchemaDir \o <<"/", "s">>
P_sa == P_s \o S_slash \o RefFile(<<"a">>)
P_sb == P_s \o S_slash \o RefFile(<<"b">>)
P_st == P_s \o S_slash \o RefFile(<<"t">>)
P_ss == P_s \o <<"/", "s">>
P_sst == P_ss \o S_slash \o RefFile(<<"t">>)
P_k == SchemaDir \o S_slash \o RefFile(F_k)
P_sx == P_s \o S_slash \o <<"x">> \o S_schema_json

\* The file system around a run: the schema directory with its entries,
\* the external documents, and the directories that block an output path.
BuildFs(entries, hasRootB) ==
    LET n == Len(entries)
        blocked == {i \in 1..n : entries[i].blocked}
        dom == {SchemaDir, P_o, P_s, P_sa, P_sb, P_sx, P_st, P_ss, P_sst, P_k}
               \cup (IF hasRootB THEN {P_b} ELSE {})
               \cup {SchemaPath(i) : i \in 1..n}
               \cup {BlockedPath(i) : i \in blocked}
               \cup (IF blocked = {} THEN {} ELSE {OutputDir})
    IN [p \in dom |->
          IF p \in {SchemaDir, P_s, P_ss, OutputDir} THEN DIR
          ELSE IF p = P_o THEN Doc_o
          ELSE IF p = P_sa THEN Doc_sa
          ELSE IF p = P_sb THEN Doc_sb
          ELSE IF p = P_b THEN Doc_b
          ELSE IF p = P_sx THEN MALFORMED
          ELSE IF p = P_st THEN Doc_st
          ELSE IF p = P_sst THEN Doc_sst
          ELSE IF p = P_k THEN Doc_k
          ELSE IF \E i \in 1..n : p = SchemaPath(i)
               THEN entries[CHOOSE i \in 1..n : p = SchemaPath(i)].content
          ELSE DIR]

\* Enumeration order of everything below the schema directory, the
\* *.schema.json entries in the order `order`.  Where the other paths
\* stand among them does not reach the program: glob drops them.
BuildListing(entries, hasRootB, order) ==
    <<P_o>> \o [i \in 1..Len(entries) |-> SchemaPath(order[i])]
            \o (IF hasRootB THEN <<P_b>> ELSE <<>>) \o <<P_s, P_sx, P_sa, P_sb, P_st, P_ss, P_sst, P_k>>

\* A file system without the schema directory.
EmptyFs == [p \in {OutputDir} |-> DIR]

\* ------------------------------------------------------------------------
\* Init
\* ------------------------------------------------------------------------
Init ==
    /\ \E pkg \in PackageNames :
          args = [schema_dir |-> SchemaDir, output_dir |-> OutputDir, package_name |-> pkg]
    /\ \/ /\ fs = EmptyFs
          /\ listing = <<>>
       \/ \E entries \in EntryLists, hasRootB \in BOOLEAN :
          \E order \in ScandirOrders(Len(entries)) :
          \* The documents of a run over several files hold no path-like
          \* default and no reference into s/: such a run is started
          \* without --package-name and without d/b.json only.
          /\ Len(entries) > 1 => (~hasRootB /\ args.package_name = Null)
          /\ fs = BuildFs(entries, hasRootB)
          /\ listing = BuildListing(entries, hasRootB, order)
    /\ pc = "check_dir"
    /\ schema_files = <<>>
    /\ idx = 0
    /\ success_count = 0
    /\ exit_code = -1
    /\ converter = Null
    /\ p_schema_data = Null
    /\ p_resolved = Null
    /\ p_defaults = Null
    /\ log = <<>>

\* ------------------------------------------------------------------------
\* main
\* ------------------------------------------------------------------------
\* fnmatch of a name against "*.schema.json"
MatchesPattern(name) == EndsWith(name, S_schema_json)

\* list(schema_dir.glob("*.schema.json")): the entries directly inside the
\* directory whose name matches, in enumeration order.
IsMatch(p) == Parent(p) = args.schema_dir /\ MatchesPattern(Name(p))
Glob == SelectSeq(listing, IsMatch)

\* sys.exit(code)
Exit(code) ==
    /\ exit_code' = code
    /\ pc' = "exited"

\* if not schema_dir.exists(): sys.exit(1)
MainCheckDir ==
    /\ pc = "check_dir"
    /\ IF ~Exists(args.schema_dir)
       THEN Exit(1)
       ELSE pc' = "glob" /\ exit_code' = exit_code
    /\ UNCHANGED <<fs, listing, args, schema_files, idx, success_count,
                   converter, p_schema_data, p_resolved, p_defaults, log>>

\* schema_files = list(glob); if not schema_files: sys.exit(1); success_count = 0
MainGlob ==
    /\ pc = "glob"
    /\ schema_files' = Glob
    /\ IF Glob = <<>>
       THEN Exit(1) /\ UNCHANGED <<idx, success_count>>
       ELSE pc' = "loop" /\ idx' = 1 /\ success_count' = 0 /\ exit_code' = exit_code
    /\ UNCHANGED <<fs, listing, args, converter, p_schema_data, p_resolved, p_defaults, log>>

\* for schema_file in schema_files: converter = SchemaToRosParamConverter(...)
MainNextFile ==
    /\ pc = "loop"
    /\ idx <= Len(schema_files)
    /\ converter' = [schema_path |-> schema_files[idx],
                     output_dir |-> args.output_dir,
                     package_name |-> args.package_name]
    /\ p_schema_data' = Null
    /\ p_resolved' = Null
    /\ p_defaults' = Null
    /\ pc' = "load"
    /\ UNCHANGED <<fs, listing, args, schema_files, idx, success_count, exit_code, log>>

\* MainFinish with the final comparison dropped: the run exits with code 0
\* whatever success_count is.
MainFinish_NoCompare ==
    /\ pc = "loop"
    /\ idx > Len(schema_files)
    /\ Exit(0)
    /\ UNCHANGED <<fs, listing, args, schema_files, idx, success_count,
                   converter, p_schema_data, p_resolved, p_defaults, log>>

\* After the loop: if success_count != len(schema_files): sys.exit(1);
\* falling off the end of main exits with code 0.
MainFinish ==
    /\ pc = "loop"
    /\ idx > Len(schema_files)
    /\ IF success_count # Len(schema_files) THEN Exit(1) ELSE Exit(0)
    /\ UNCHANGED <<fs, listing, args, schema_files, idx, success_count,
                   converter, p_schema_data, p_resolved, p_defaults, log>>

\* ------------------------------------------------------------------------
\* SchemaToRosParamConverter.process
\* ------------------------------------------------------------------------
Processing(path) == [ev |-> "processing", file |-> path]
Returned(path, ok) == [ev |-> "returned", file |-> path, ok |-> ok]

\* Return with a failure that leaves the for loop (the exception is not
\* caught per file).
Return_Abort(ok, events) ==
    /\ log' = log \o events \o <<Returned(converter.schema_path, ok)>>
    /\ success_count' = IF ok THEN success_count + 1 ELSE success_count
    /\ idx' = IF ok THEN idx + 1 ELSE Len(schema_files) + 1
    /\ pc' = "loop"

\* process returns `ok` to main: if converter.process(): success_count += 1,
\* and the loop moves on.
Return(ok, events) ==
    /\ log' = log \o events \o <<Returned(converter.schema_path, ok)>>
    /\ success_count' = IF ok THEN success_count + 1 ELSE success_count
    /\ idx' = idx + 1
    /\ pc' = "loop"

\* logger.info("Processing ..."); schema_data = json.load(f)
ProcessLoad ==
    /\ pc = "load"
    /\ LET loaded == JsonLoad(converter.schema_path) IN
       IF loaded = EXC
       THEN Return(FALSE, <<Processing(converter.schema_path)>>) /\ UNCHANGED p_schema_data
       ELSE /\ p_schema_data' = loaded
            /\ log' = Append(log, Processing(converter.schema_path))
            /\ pc' = "resolve"
            /\ UNCHANGED <<idx, success_count>>
    /\ UNCHANGED <<fs, listing, args, schema_files, exit_code, converter, p_resolved, p_defaults>>

\* resolved_schema = self._resolve_refs(schema_data, schema_data)
ProcessResolve ==
    /\ pc = "resolve"
    /\ LET resolved == ResolveRefs(converter, p_schema_data, p_schema_data, RecursionLimit) IN
       IF resolved = EXC
       THEN Return(FALSE, <<>>) /\ UNCHANGED p_resolved
       ELSE /\ p_resolved' = resolved
            /\ pc' = "extract"
            /\ UNCHANGED <<idx, success_count, log>>
    /\ UNCHANGED <<fs, listing, args, schema_files, exit_code, converter, p_schema_data, p_defaults>>

\* defaults = self._extract_defaults_from_resolved_schema(resolved_schema)
ProcessExtract ==
    /\ pc = "extract"
    /\ LET extracted == ExtractDefaultsFromResolvedSchema(converter, p_resolved) IN
       IF extracted = EXC
       THEN Return(FALSE, <<>>) /\ UNCHANGED p_defaults
       ELSE /\ p_defaults' = extracted
            /\ pc' = "save"
            /\ UNCHANGED <<idx, success_count, log>>
    /\ UNCHANGED <<fs, listing, args, schema_files, exit_code, converter, p_schema_data, p_resolved>>

\* self._save_yaml(defaults); return True
ProcessSave ==
    /\ pc = "save"
    /\ IF SaveRaises(converter)
       THEN Return(FALSE, <<>>) /\ UNCHANGED fs
       ELSE Return(TRUE, <<>>) /\ fs' = SaveYaml(converter, p_defaults)
    /\ UNCHANGED <<listing, args, schema_files, exit_code, converter,
                   p_schema_data, p_resolved, p_defaults>>

Next ==
    \/ MainCheckDir
    \/ MainGlob
    \/ MainNextFile
    \/ MainFinish
    \/ ProcessLoad
    \/ ProcessResolve
    \/ ProcessExtract
    \/ ProcessSave

Spec == Init /\ [][Next]_vars

\* ------------------------------------------------------------------------
\* Observations used by the properties
\* ------------------------------------------------------------------------
\* doc["properties"]["/**"]["properties"]["ros__parameters"]
RosParams(doc) ==
    Get(Get(Get(Get(doc, K_properties), K_wildcard), K_properties), K_ros_parameters)

\* The document has the shape of RootDoc.
HasRosParams(doc) ==
    /\ IsDict(doc)
    /\ NestedLookup(doc, K_properties, K_wildcard) = "yes"
    /\ NestedLookup(Get(Get(doc, K_properties), K_wildcard), K_properties, K_ros_parameters) = "yes"

\* json.load has returned a document with ros__parameters for the current file.
Loaded == HasRosParams(p_schema_data)

\* _resolve_refs has returned for the current file.
Resolved == Loaded /\ p_resolved # Null

\* _extract_defaults_from_resolved_schema has returned for the current file.
Extracted == Resolved /\ p_defaults # Null

\* The schema node of property p before and after _resolve_refs.
NodeIn == Get(Get(RosParams(p_schema_data), K_properties), N_p)
NodeOut == Get(Get(RosParams(p_resolved), K_properties), N_p)

\* The DefaultsTree: defaults["/**"]["ros__parameters"].
Tree == Get(Get(p_defaults, K_wildcard), K_ros_parameters)

\* The string of the node's "$ref", <<>> when it has none or not a str.
RefOf(node) ==
    IF HasKey(node, K_ref) /\ IsStr(Get(node, K_ref)) THEN Get(node, K_ref).s ELSE <<>>

\* The keys of a referencing node other than "$ref".
SiblingKeys(node) == Keys(node) \ {K_ref}

\* process has returned `ok` for the file.
HasReturned(path, ok) == \E i \in 1..Len(log) : log[i] = Returned(path, ok)

\* Number of times process was entered for the file.
Attempts(path) == Cardinality({i \in 1..Len(log) : log[i] = Processing(path)})

\* The file's output was written.
OutputWritten(path) ==
    LET out == OutputPath([schema_path |-> path, output_dir |-> args.output_dir])
    IN Exists(out) /\ fs[out].t = "yaml"

\* ------------------------------------------------------------------------
\* C1: main exits with code 0 if and only if the schema directory exists,
\* at least one entry directly inside it matches *.schema.json and process
\* returned True for every matched entry; otherwise it exits with code 1.
\* ------------------------------------------------------------------------
C1_ExitCode ==
    pc = "exited" =>
        LET matched == Glob IN
        /\ exit_code \in {0, 1}
        /\ exit_code = 0 <=>
              /\ Exists(args.schema_dir)
              /\ matched # <<>>
              /\ \A i \in 1..Len(matched) : HasReturned(matched[i], TRUE)

C1_Witness ==
    /\ pc = "exited"
    /\ exit_code = 0
    /\ Len(Glob) >= 2
    /\ \A i \in 1..Len(Glob) : HasReturned(Glob[i], TRUE)

\* ------------------------------------------------------------------------
\* C2: batch isolation.  When the loop has run, every matched entry was
\* attempted exactly once, whatever failed before it, and success_count is
\* the number of entries whose whole pipeline completed (whose output was
\* written).
\* ------------------------------------------------------------------------
C2_BatchIsolation ==
    (pc = "exited" /\ Exists(args.schema_dir) /\ Glob # <<>>) =>
        LET matched == Glob IN
        /\ \A i \in 1..Len(matched) : Attempts(matched[i]) = 1
        /\ \A i \in 1..Len(matched) : HasReturned(matched[i], TRUE) <=> OutputWritten(matched[i])
        /\ success_count = Cardinality({i \in 1..Len(matched) : OutputWritten(matched[i])})

\* Three valid files after a malformed one: success_count 3, exit code 1.
C2_Witness ==
    /\ pc = "exited"
    /\ Len(Glob) = 4
    /\ fs[Glob[1]] = MALFORMED
    /\ \A i \in 2..4 : OutputWritten(Glob[i])
    /\ success_count = 3
    /\ exit_code = 1

\* ------------------------------------------------------------------------
\* What a "$ref" string names, read off the string and the files
\* ------------------------------------------------------------------------
\* The file part and the definition name of a "$ref" string.
FilePart(ref) == IF Find(ref, S_hash) = 0 THEN ref ELSE SubSeq(ref, 1, Find(ref, S_hash) - 1)
HasFragment(ref) == Find(ref, S_hash) # 0
HasDefinitionFragment(ref) ==
    Find(ref, S_hash) # 0 /\ Find(ref, S_definitions_path) = Find(ref, S_hash) + 1
DefinitionName(ref) ==
    SubSeq(ref, Find(ref, S_hash) + 1 + Len(S_definitions_path), Len(ref))
IsExternal(ref) == ref # <<>> /\ ref[1] # "#"

\* The document a "$ref" of `doc`, a document of directory `dir`, points
\* into (EXC when the file is missing or unreadable), and its directory.
RefDir(ref, dir) ==
    IF IsExternal(ref) THEN Parent(PathJoin(dir, FilePart(ref))) ELSE dir
RefDoc(ref, doc, dir) ==
    IF IsExternal(ref) THEN JsonLoad(PathJoin(dir, FilePart(ref))) ELSE doc

\* The "$ref" names a definition that exists in the document it points into.
NamesDefinition(ref, doc, dir) ==
    LET target == RefDoc(ref, doc, dir) IN
    /\ HasDefinitionFragment(ref)
    /\ target # EXC
    /\ IsDict(target)
    /\ HasKey(target, K_definitions)
    /\ IsDict(Get(target, K_definitions))
    /\ HasKey(Get(target, K_definitions), DefinitionName(ref))

\* The definition named by a "$ref" of the root schema, as it is in its
\* document and as _resolve_refs resolves it against that document.
RootDir == Parent(converter.schema_path)
NamedDefinition(ref) ==
    Get(Get(RefDoc(ref, p_schema_data, RootDir), K_definitions), DefinitionName(ref))
ResolvedDefinition(ref) ==
    ResolveRefs(converter, NamedDefinition(ref), RefDoc(ref, p_schema_data, RootDir), RecursionLimit)

\* ------------------------------------------------------------------------
\* C3: an external $ref is loaded relative to the directory of the document
\* that contains it: the root schema refers to definition A of s/a.json,
\* which is a $ref to b.json#/definitions/B, so the node resolves to B of
\* s/b.json (overlaid with the node's own sibling keys).
\* ------------------------------------------------------------------------
C3_ReferencingDirectory ==
    (Resolved /\ RefOf(NodeIn) = RefFileDef(F_sa, N_A)) =>
        NodeOut = MergeSiblings(Get(Get(fs[P_sb], K_definitions), N_B), NodeIn, Len(NodeIn.kv))

\* ------------------------------------------------------------------------
\* C4: an external $ref without fragment whose file loads yields the whole
\* external document, resolved with itself as root, overlaid with every
\* key of the referencing node other than $ref.
\* ------------------------------------------------------------------------
C4_WholeFileMerged ==
    (Resolved /\ RefOf(NodeIn) = RefFile(F_o)) =>
        NodeOut = MergeSiblings(ResolveRefs(converter, fs[P_o], fs[P_o], RecursionLimit),
                                NodeIn, Len(NodeIn.kv))

\* ------------------------------------------------------------------------
\* C5: internal merge precedence.  For a node with $ref "#/definitions/NAME"
\* where NAME is a definition of the root document that resolves to a dict,
\* the result has exactly the keys of the resolved definition and the
\* node's keys other than $ref; a key of the node has the node's value
\* (also when the definition has it too), any other key the resolved
\* definition's value, so a $ref key can only come from the definition.
\* ------------------------------------------------------------------------
C5_Case ==
    /\ Resolved
    /\ RefOf(NodeIn) # <<>>
    /\ ~IsExternal(RefOf(NodeIn))
    /\ NamesDefinition(RefOf(NodeIn), p_schema_data, RootDir)
    /\ IsDict(ResolvedDefinition(RefOf(NodeIn)))

C5_InternalMergePrecedence ==
    C5_Case =>
        LET target == ResolvedDefinition(RefOf(NodeIn)) IN
        /\ IsDict(NodeOut)
        /\ Keys(NodeOut) = Keys(target) \cup SiblingKeys(NodeIn)
        /\ \A k \in SiblingKeys(NodeIn) : Get(NodeOut, k) = Get(NodeIn, k)
        /\ \A k \in Keys(target) \ SiblingKeys(NodeIn) : Get(NodeOut, k) = Get(target, k)

\* The local default 5 overrides the definition's default 1.
C5_Witness ==
    /\ C5_Case
    /\ HasKey(NodeIn, K_default)
    /\ Get(NodeIn, K_default) = Num(5)
    /\ Get(ResolvedDefinition(RefOf(NodeIn)), K_default) = Num(1)
    /\ Get(NodeOut, K_default) = Num(5)

\* ------------------------------------------------------------------------
\* C6: when a $ref names an existing definition whose resolved value is not
\* a dict, resolve returns that resolved value, not the referencing node.
\* ------------------------------------------------------------------------
C6_NonObjectTarget ==
    (/\ Resolved
     /\ RefOf(NodeIn) # <<>>
     /\ NamesDefinition(RefOf(NodeIn), p_schema_data, RootDir)
     /\ ~IsDict(ResolvedDefinition(RefOf(NodeIn)))) =>
        NodeOut = ResolvedDefinition(RefOf(NodeIn))

\* ------------------------------------------------------------------------
\* C7: if every $ref reachable from a node names an existing file and an
\* existing definition, the resolved node has no "$ref" key at any depth.
\* ------------------------------------------------------------------------
RECURSIVE NoRefKey(_)
NoRefKey(v) ==
    IF IsDict(v) THEN /\ ~HasKey(v, K_ref)
                      /\ \A i \in 1..Len(v.kv) : NoRefKey(v.kv[i][2])
    ELSE IF IsList(v) THEN \A i \in 1..Len(v.items) : NoRefKey(v.items[i])
    ELSE TRUE

\* Every $ref in v, a value of document `doc` of directory `dir`, names an
\* existing file and, when it has a fragment, an existing definition; so
\* does every $ref in what it names.
RECURSIVE RefsExist(_, _, _)
RefsExist(v, doc, dir) ==
    IF IsDict(v) THEN
        /\ \A i \in 1..Len(v.kv) : v.kv[i][1] # K_ref => RefsExist(v.kv[i][2], doc, dir)
        /\ HasKey(v, K_ref) =>
              LET ref == RefOf(v)
                  target == RefDoc(ref, doc, dir)
              IN /\ ref # <<>>
                 /\ target # EXC
                 /\ IF HasFragment(ref)
                    THEN /\ NamesDefinition(ref, doc, dir)
                         /\ RefsExist(Get(Get(target, K_definitions), DefinitionName(ref)),
                                      target, RefDir(ref, dir))
                    ELSE RefsExist(target, target, RefDir(ref, dir))
    ELSE IF IsList(v) THEN \A i \in 1..Len(v.items) : RefsExist(v.items[i], doc, dir)
    ELSE TRUE

C7_NoRefLeft ==
    (Resolved /\ RefsExist(NodeIn, p_schema_data, RootDir)) => NoRefKey(NodeOut)

\* ------------------------------------------------------------------------
\* Which properties carry a default, read off the resolved schema
\* ------------------------------------------------------------------------
\* Some property below the node, reached through type=object nodes with
\* properties, has a "default" key.
RECURSIVE DefaultBelow(_)
DefaultBelow(node) ==
    /\ HasKey(node, K_type)
    /\ Get(node, K_type) = Str(S_object)
    /\ HasKey(node, K_properties)
    /\ \E i \in 1..Len(Get(node, K_properties).kv) :
          LET child == Get(node, K_properties).kv[i][2]
          IN HasKey(child, K_default) \/ DefaultBelow(child)

\* ------------------------------------------------------------------------
\* C8 (as stated): a property whose node carries an external $ref to a
\* missing file is returned unchanged by resolve, process returns True, and
\* the property's name is absent from the DefaultsTree.
\* ------------------------------------------------------------------------
MissingFileRef(node) ==
    /\ IsExternal(RefOf(node))
    /\ ~Exists(PathJoin(RootDir, FilePart(RefOf(node))))

C8_MissingFileAbsent ==
    (Loaded /\ MissingFileRef(NodeIn)) =>
        /\ Resolved => NodeOut = NodeIn
        /\ ~HasReturned(converter.schema_path, FALSE)
        /\ Extracted => ~HasKey(Tree, N_p)

\* C8 (amended): a property whose node carries an external $ref to a
\* missing file is returned unchanged by resolve, process returns True
\* (unless the output cannot be written), and the property's name is in
\* the DefaultsTree exactly when the unresolved node itself has a "default"
\* key or is a type=object node whose own properties lead to a default.
C8_MissingFileUnresolved ==
    (Loaded /\ MissingFileRef(NodeIn)) =>
        /\ Resolved => NodeOut = NodeIn
        /\ HasReturned(converter.schema_path, FALSE) => SaveRaises(converter)
        /\ Extracted => (HasKey(Tree, N_p) <=> (HasKey(NodeIn, K_default) \/ DefaultBelow(NodeIn)))

\* A missing file on a node with a literal default: the run succeeds and
\* the property is in the output.
C8_Witness ==
    /\ Extracted
    /\ MissingFileRef(NodeIn)
    /\ NodeOut = NodeIn
    /\ HasKey(NodeIn, K_default)
    /\ HasKey(Tree, N_p)
    /\ HasReturned(converter.schema_path, TRUE)

\* ------------------------------------------------------------------------
\* C9: pruning.  At every level of the DefaultsTree, a property is present
\* if and only if its resolved node has a "default" key or a default below
\* it, and a value created by recursion is never an empty mapping.
\* ------------------------------------------------------------------------
RECURSIVE Pruned(_, _)
Pruned(tree, props) ==
    /\ Keys(tree) \subseteq Keys(props)
    /\ \A k \in Keys(props) :
          LET node == Get(props, k) IN
          /\ HasKey(tree, k) <=> (HasKey(node, K_default) \/ DefaultBelow(node))
          /\ (HasKey(tree, k) /\ ~HasKey(node, K_default)) =>
                /\ IsDict(Get(tree, k))
                /\ Get(tree, k).kv # <<>>
                /\ Pruned(Get(tree, k), Get(node, K_properties))

C9_Pruning ==
    Extracted => Pruned(Tree, Get(RosParams(p_resolved), K_properties))

\* A type=object property with nested properties and no default anywhere
\* below it is left out.
C9_Witness ==
    /\ Extracted
    /\ ~HasKey(NodeOut, K_default)
    /\ HasKey(NodeOut, K_type)
    /\ Get(NodeOut, K_type) = Str(S_object)
    /\ HasKey(NodeOut, K_properties)
    /\ ~DefaultBelow(NodeOut)
    /\ ~HasKey(Tree, N_p)
    /\ HasKey(Tree, N_q)

\* ------------------------------------------------------------------------
\* C10: path rewrite gating.  Every extracted default v is
\* "$(find-pkg-share p)/v" exactly when the package name p is non-empty and
\* v is a string that does not start with "/" or "$(" and contains "/" or
\* ends with .yaml/.json/.pcd/.onnx/.xml; otherwise it is v unchanged.
\* ------------------------------------------------------------------------
Gate(v, pkg) ==
    /\ pkg.t = "str"
    /\ Len(pkg.s) > 0
    /\ v.t = "str"
    /\ ~(Len(v.s) >= 1 /\ v.s[1] = "/")
    /\ ~(Len(v.s) >= 2 /\ v.s[1] = "$" /\ v.s[2] = "(")
    /\ \/ \E i \in 1..Len(v.s) : v.s[i] = "/"
       \/ \E e \in {S_yaml, S_json, S_pcd, S_onnx, S_xml} :
             /\ Len(v.s) >= Len(e)
             /\ \A i \in 1..Len(e) : v.s[Len(v.s) - Len(e) + i] = e[i]

Expected(v, pkg) ==
    IF Gate(v, pkg)
    THEN Str(<<"$", "(", "f", "i", "n", "d", "-", "p", "k", "g", "-", "s", "h", "a", "r", "e", " ">>
             \o pkg.s \o <<")", "/">> \o v.s)
    ELSE v

RECURSIVE Rewritten(_, _)
Rewritten(tree, props) ==
    \A k \in Keys(props) :
        LET node == Get(props, k) IN
        IF HasKey(node, K_default)
        THEN HasKey(tree, k) /\ Get(tree, k) = Expected(Get(node, K_default), args.package_name)
        ELSE HasKey(tree, k) => Rewritten(Get(tree, k), Get(node, K_properties))

C10_PathRewriteGating ==
    Extracted => Rewritten(Tree, Get(RosParams(p_resolved), K_properties))

\* With package name "pk", "c/a.yaml" becomes "$(find-pkg-share pk)/c/a.yaml".
C10_Witness ==
    /\ Extracted
    /\ args.package_name = Str(<<"p", "k">>)
    /\ HasKey(NodeOut, K_default)
    /\ Get(NodeOut, K_default) = PathLikeDefault
    /\ Get(Tree, N_p) = Str(S_find_pkg_share \o <<"p", "k">> \o S_close_paren_slash \o PathLikeDefault.s)

\* ------------------------------------------------------------------------
\* C11: order preservation.  At every level of the DefaultsTree the keys
\* come in the order in which the resolved schema declares the properties
\* that are present, and _resolve_refs keeps the key order of every dict
\* that has no "$ref" key.
\* ------------------------------------------------------------------------
\* list(d.keys()): the keys of a dict in their order.
KeyOrder(d) == [i \in 1..Len(d.kv) |-> d.kv[i][1]]

\* The keys of `props`, in declaration order, that are keys of `tree`.
DeclaredOrder(tree, props) ==
    LET InTree(k) == HasKey(tree, k) IN SelectSeq(KeyOrder(props), InTree)

RECURSIVE OrderFollowsSchema(_, _)
OrderFollowsSchema(tree, props) ==
    /\ KeyOrder(tree) = DeclaredOrder(tree, props)
    /\ \A k \in Keys(tree) :
          ~HasKey(Get(props, k), K_default) =>
              OrderFollowsSchema(Get(tree, k), Get(Get(props, k), K_properties))

RECURSIVE OrderKept(_, _)
OrderKept(before, after) ==
    IF IsDict(before) /\ ~HasKey(before, K_ref)
    THEN /\ IsDict(after)
         /\ KeyOrder(after) = KeyOrder(before)
         /\ \A i \in 1..Len(before.kv) : OrderKept(before.kv[i][2], after.kv[i][2])
    ELSE IF IsList(before)
    THEN /\ IsList(after)
         /\ Len(after.items) = Len(before.items)
         /\ \A i \in 1..Len(before.items) : OrderKept(before.items[i], after.items[i])
    ELSE TRUE

C11_OrderPreservation ==
    /\ Resolved => OrderKept(p_schema_data, p_resolved)
    /\ Extracted => OrderFollowsSchema(Tree, Get(RosParams(p_resolved), K_properties))

\* Properties declared in the order b, a, c come out in the order b, a, c.
C11_Witness ==
    /\ Extracted
    /\ HasKey(NodeOut, K_properties)
    /\ KeyOrder(Get(NodeOut, K_properties)) = <<N_b, N_a, N_c>>
    /\ HasKey(Tree, N_p)
    /\ IsDict(Get(Tree, N_p))
    /\ KeyOrder(Get(Tree, N_p)) = <<N_b, N_a, N_c>>
    /\ KeyOrder(Tree) = <<N_p, N_q>>

\* ------------------------------------------------------------------------
\* C12: resolution order.  When a "$ref" node is merged, the target has been
\* resolved on its own first and the sibling keys are overlaid afterwards
\* without passing through _resolve_refs: a sibling value of the result is
\* the sibling value of the input, a "$ref" nested in it included, and every
\* other key holds the value of the resolved target.
\* ------------------------------------------------------------------------
\* Stack frames left when _resolve_refs is entered for property p: the root
\* document, "properties", "/**", "properties", "ros__parameters" and
\* "properties" lie above it.
NodeDepth == RecursionLimit - 6

\* _resolve_refs of the definition the node's "$ref" names, as called from
\* the node's frame.
TargetResolved(node) ==
    ResolveRefs(converter, NamedDefinition(RefOf(node)),
                RefDoc(RefOf(node), p_schema_data, RootDir), NodeDepth - 1)

\* The node of property p went through the merge.
C12_Merged ==
    /\ Resolved
    /\ RefOf(NodeIn) # <<>>
    /\ NamesDefinition(RefOf(NodeIn), p_schema_data, RootDir)
    /\ IsDict(TargetResolved(NodeIn))

RECURSIVE HasRefKey(_)
HasRefKey(v) ==
    IF IsDict(v)
    THEN HasKey(v, K_ref) \/ \E i \in 1..Len(v.kv) : HasRefKey(v.kv[i][2])
    ELSE IF IsList(v) THEN \E i \in 1..Len(v.items) : HasRefKey(v.items[i])
    ELSE FALSE

C12_ResolutionOrder ==
    C12_Merged =>
        LET target == TargetResolved(NodeIn) IN
        /\ IsDict(NodeOut)
        /\ \A k \in Keys(NodeOut) :
              Get(NodeOut, k) = IF k \in SiblingKeys(NodeIn) THEN Get(NodeIn, k)
                                ELSE Get(target, k)
        /\ \A k \in SiblingKeys(NodeIn) :
              HasKey(NodeOut, k) /\ (HasRefKey(Get(NodeIn, k)) => HasRefKey(Get(NodeOut, k)))

\* The target N, itself a "$ref" to A with default 6, arrives resolved, and
\* the sibling "properties" keeps its nested "$ref".
C12_Witness ==
    /\ C12_Merged
    /\ RefOf(NodeIn) = RefInternal(N_N)
    /\ HasKey(NodeIn, K_properties)
    /\ HasRefKey(Get(NodeIn, K_properties))
    /\ ~HasKey(NodeOut, K_ref)
    /\ Get(NodeOut, K_default) = Num(6)
    /\ Get(NodeOut, K_type) = Str(S_integer)
    /\ Get(NodeOut, K_properties) = Get(NodeIn, K_properties)
    /\ HasRefKey(Get(NodeOut, K_properties))

\* ------------------------------------------------------------------------
\* C13: termination.  With documents whose reference graph over
\* (document, definition) pairs is acyclic, _resolve_refs terminates: the
\* recursion runs out of stack only when some "$ref" chain leads back to a
\* definition or document that is already being resolved.  The graph is the
\* one the documents describe: an external "$ref" names a file next to the
\* document that contains it.
\* ------------------------------------------------------------------------
\* A "$ref" chain from v, a node of the document `doc` stored at `path`,
\* comes back to one of the (path, definition) pairs in `active`; a whole
\* document is the pair (path, <<>>).  Sibling values of a "$ref" are never
\* resolved and are not followed.
RECURSIVE ChainLoops(_, _, _, _)
ChainLoops(v, doc, path, active) ==
    IF IsDict(v) THEN
        IF HasKey(v, K_ref) THEN
            LET ref == RefOf(v)
                parts == Partition(ref, S_hash)
                tpath == IF IsExternal(ref) THEN PathJoin(Parent(path), parts[1]) ELSE path
                tdoc == IF IsExternal(ref) THEN JsonLoad(tpath) ELSE doc
                def_name == DefinitionName(ref)
            IN
            IF ref = <<>> THEN FALSE
            ELSE IF IsExternal(ref) /\ (~Exists(tpath) \/ tdoc = EXC) THEN FALSE
            ELSE IF IsExternal(ref) /\ parts[3] = <<>> THEN
                \/ <<tpath, <<>>>> \in active
                \/ ChainLoops(tdoc, tdoc, tpath, active \cup {<<tpath, <<>>>>})
            ELSE /\ HasDefinitionFragment(ref)
                 /\ DefinitionLookup(tdoc, def_name) = "yes"
                 /\ ~SubscriptRaises(Get(tdoc, K_definitions))
                 /\ \/ <<tpath, def_name>> \in active
                    \/ ChainLoops(Get(Get(tdoc, K_definitions), def_name), tdoc, tpath,
                                  active \cup {<<tpath, def_name>>})
        ELSE \E i \in 1..Len(v.kv) : ChainLoops(v.kv[i][2], doc, path, active)
    ELSE IF IsList(v) THEN \E i \in 1..Len(v.items) : ChainLoops(v.items[i], doc, path, active)
    ELSE FALSE

\* The reference graph reachable from the current root document has a cycle.
ReferenceCycle ==
    ChainLoops(p_schema_data, p_schema_data, converter.schema_path,
               {<<converter.schema_path, <<>>>>})

\* _resolve_refs of the current root document runs out of stack.
Overflows == StackOverflows(converter, p_schema_data, p_schema_data, RecursionLimit)

\* _resolve_refs has returned to process for the current root document.
ResolveReturned == Loaded /\ pc \in {"extract", "save"}

C13_Termination == ResolveReturned => (Overflows => ReferenceCycle)

====
